---- MODULE Spec2Model ----
(***************************************************************************)
(* Model of warp's logging decorator, src/filters/log.rs.                  *)
(*                                                                         *)
(* The instrumented stage is a chain of `depth` decorators,                 *)
(*     outer.decorate(inner_log.decorate(stage))                           *)
(* for depth 2.  Layer 1 is the decorator wrapped directly around the raw  *)
(* stage, layer `depth` is the outermost decorator, layer 0 is the raw     *)
(* stage.  One invocation is one future made by the outermost filter(); a  *)
(* worker thread polls it with the request's route installed in its        *)
(* thread-local ROUTE for the duration of the poll.  The steps a poll      *)
(* takes inside log.rs are separate actions so that other threads          *)
(* interleave with them.  `clock` is the last reading of the monotonic     *)
(* clock: every step that reads it gets a value that is no earlier.        *)
(*                                                                         *)
(* Two specifications share the actions:                                   *)
(*   SpecChain  one request through a chain of NumLayers decorators;       *)
(*   SpecConc   NumInvocations concurrent requests through one decorator.  *)
(***************************************************************************)
EXTENDS Integers, Sequences, FiniteSets, TLC

\* ---------------------------------------------------------------- bounds
NumInvocations == 2
NumThreads == 2
NumLayers == 2
MaxClock == 1

Invocations == 1..NumInvocations
Threads == 1..NumThreads
Layers == 1..NumLayers

\* ---------------------------------------------------------------- values
NoInv == 0
NoStart == -1
NoStatus == 0
Untimed == 0
NoRoute == [method |-> "", path |-> <<>>, version |-> ""]
NoResult == [tag |-> "None"]

\* The request of invocation i: every request has a path of its own.
RouteOf(i) ==
    [method |-> IF i % 2 = 1 THEN "GET" ELSE "POST",
     path |-> <<"req", i>>,
     version |-> "HTTP/1.1"]

\* Success values of the raw stage (F::Extract: Reply).
Replies ==
    { [kind |-> "text", body |-> "hello"],
      [kind |-> "with_status", code |-> 201, body |-> "made"] }

\* Failure values of the raw stage (F::Error: Reject).
Rejections ==
    { [reason |-> "not_found", cause |-> "no route"],
      [reason |-> "bad_request", cause |-> "bad header"] }

Ok(v) == [tag |-> "Ok", val |-> v]
Err(e) == [tag |-> "Err", val |-> e]

StageResults == { Ok(r) : r \in Replies } \cup { Err(e) : e \in Rejections }

\* One success and one failure, for the runs with several requests.
FewResults ==
    { Ok([kind |-> "with_status", code |-> 201, body |-> "made"]),
      Err([reason |-> "not_found", cause |-> "no route"]) }

\* internal::Logged(resp)
Logged(resp) == [kind |-> "logged", resp |-> resp]

\* ReplySealed for Logged: into_response(self) = self.0
LoggedDropsResponse(rep) == [status |-> 200, body |-> ""]
LoggedIntoResponse(rep) == rep.resp

\* Reply::into_response of the reply types the stage produces.
IntoResponse(rep) ==
    CASE rep.kind = "logged" -> LoggedIntoResponse(rep)
      [] rep.kind = "text" -> [status |-> 200, body |-> rep.body]
      [] rep.kind = "with_status" -> [status |-> rep.code, body |-> rep.body]

\* Reject::status of a rejection.
RejectStatus(e) ==
    CASE e.reason = "not_found" -> 404
      [] e.reason = "bad_request" -> 400

\* The match of the `then` closure: the forwarded result and the status.
ClassifyFailsOnSuccess(result) ==
    IF result.tag = "Ok"
    THEN [result |-> Err([reason |-> "not_found", cause |-> "log"]),
          status |-> IntoResponse(result.val).status]
    ELSE [result |-> Err(result.val), status |-> RejectStatus(result.val)]
ClassifyOkStatus200(result) ==
    IF result.tag = "Ok"
    THEN [result |-> Ok(Logged(IntoResponse(result.val))), status |-> 200]
    ELSE [result |-> Err(result.val), status |-> RejectStatus(result.val)]
ClassifyErrStatus500(result) ==
    IF result.tag = "Ok"
    THEN [result |-> Ok(Logged(IntoResponse(result.val))),
          status |-> IntoResponse(result.val).status]
    ELSE [result |-> Err(result.val), status |-> 500]
ClassifyWrapsEmptyBody(result) ==
    IF result.tag = "Ok"
    THEN [result |-> Ok(Logged([status |-> IntoResponse(result.val).status,
                                body |-> ""])),
          status |-> IntoResponse(result.val).status]
    ELSE [result |-> Err(result.val), status |-> RejectStatus(result.val)]
ClassifyForwardsStatus200(result) ==
    IF result.tag = "Ok"
    THEN [result |-> Ok(Logged([status |-> 200,
                                body |-> IntoResponse(result.val).body])),
          status |-> IntoResponse(result.val).status]
    ELSE [result |-> Err(result.val), status |-> RejectStatus(result.val)]
ClassifyRebuildsReject(result) ==
    IF result.tag = "Ok"
    THEN [result |-> Ok(Logged(IntoResponse(result.val))),
          status |-> IntoResponse(result.val).status]
    ELSE [result |-> Err([reason |-> result.val.reason, cause |-> ""]),
          status |-> RejectStatus(result.val)]
Classify(result) ==
    IF result.tag = "Ok"
    THEN LET resp == IntoResponse(result.val)
         IN  [result |-> Ok(Logged(resp)), status |-> resp.status]
    ELSE LET reject == result.val
         IN  [result |-> Err(reject), status |-> RejectStatus(reject)]

\* Info { start, status, _marker }
Info(start, status) == [start |-> start, status |-> status]
NoInfo == [start |-> NoStart, status |-> NoStatus]

\* The result of any().filter(): it extracts nothing and cannot fail.
AnyFilter == Ok("unit")

\* and_then hands the second future's error on through From::from, which
\* for <Rejection as CombineRejection<Never>>::Rejection = Rejection is the
\* reflexive conversion.
CombineFrom(result) == result

\* ---------------------------------------------------------------- state
VARIABLES
    depth,      \* the number of decorators the stage was built with
    decor,      \* decor[k]: the func and the inner stage decorator k holds
    delay,      \* the fixed delay D of the raw stage; Untimed: it has none
    deadline,   \* deadline[i]: when the raw stage of invocation i is ready
    clock,      \* the last reading of Instant::now(), monotonic
    pc,         \* pc[i]: where invocation i is
    layer,      \* layer[i]: the decorator layer whose code i is executing
    route,      \* route[i]: the request of invocation i
    start,      \* start[i][k]: `start` of layer k's and_then closure
    result,     \* result[i]: the result travelling up the chain
    status,     \* status[i][k]: `status` of layer k's then closure
    inres,      \* inres[i][k]: the `result` argument of layer k's then closure
    outcome,    \* outcome[i]: what the outermost future resolved to
    hist,       \* hist[i]: the events of invocation i, in order
    logs,       \* logs[i]: the observer calls made by invocation i, in order
    info,       \* info[i]: the Info record the observer of i is holding
    running,    \* running[t]: the invocation thread t is polling
    ROUTE       \* ROUTE[t]: the scoped thread-local route of thread t

vars == <<depth, decor, delay, deadline, clock, pc, layer, route, start, result, status, inres, outcome,
          hist, logs, info, running, ROUTE>>

\* The default observer made by log(name) and the name it captured.
TargetName(k) == <<"log", k>>
LogFunc(name) == [name |-> name]

\* What decorate() moves into the stage it returns: a clone of self.func and
\* the inner stage (stage 0 is the raw stage).
Decorated(k) == [func |-> LogFunc(TargetName(k)), inner |-> k - 1]

\* let func = func.clone(): what the closure's own func is afterwards.
FuncMovedOut(f) == LogFunc(<<>>)
FuncAfterClone(f) == f

ThreadOf(i) == CHOOSE t \in Threads : running[t] = i

InitWith(d, D) ==
    /\ depth = d
    /\ decor = [k \in Layers |-> Decorated(k)]
    /\ delay \in D
    /\ deadline = [i \in Invocations |-> NoStart]
    /\ clock = 0
    /\ pc = [i \in Invocations |-> "idle"]
    /\ layer = [i \in Invocations |-> d]
    /\ route = [i \in Invocations |-> NoRoute]
    /\ start = [i \in Invocations |-> [k \in Layers |-> NoStart]]
    /\ result = [i \in Invocations |-> NoResult]
    /\ status = [i \in Invocations |-> [k \in Layers |-> NoStatus]]
    /\ inres = [i \in Invocations |-> [k \in Layers |-> NoResult]]
    /\ outcome = [i \in Invocations |-> NoResult]
    /\ hist = [i \in Invocations |-> <<>>]
    /\ logs = [i \in Invocations |-> <<>>]
    /\ info = [i \in Invocations |-> NoInfo]
    /\ running = [t \in Threads |-> NoInv]
    /\ ROUTE = [t \in Threads |-> NoRoute]

\* ---------------------------------------------------------------- helpers
Event(ev, k) == <<ev, k>>

\* The poll of invocation i returns to the executor: the scoped thread-local
\* is restored and the thread is free again.
Release(i) ==
    /\ running' = [running EXCEPT ![ThreadOf(i)] = NoInv]
    /\ ROUTE' = [ROUTE EXCEPT ![ThreadOf(i)] = NoRoute]

IsRunning(i) == \E t \in Threads : running[t] = i

\* Has the inner stage of layer k completed in invocation i ?
Completed(i, k) == \E n \in DOMAIN hist[i] : hist[i][n] = Event("complete", k)

\* The order of the steps of one layer, as decorate() writes them: the step
\* after step p, given whether the layer's inner stage has completed.
SkipObserver(p, completed) ==
    CASE p = "start" -> "call"
      [] p = "complete" -> "classify"
      [] p = "classify" -> "forward"
      [] p = "observe" -> "forward"
ObserveBeforeClassify(p, completed) ==
    CASE p = "start" -> "call"
      [] p = "complete" -> "observe"
      [] p = "observe" -> "classify"
      [] p = "classify" -> "forward"
EagerObserver(p, completed) ==
    CASE p = "start" -> "observe"
      [] p = "complete" -> "classify"
      [] p = "classify" -> "observe"
      [] p = "observe" -> IF completed THEN "forward" ELSE "call"
RetryInner(p, completed) ==
    CASE p = "start" -> "call"
      [] p = "complete" -> "classify"
      [] p = "classify" -> "call"
      [] p = "observe" -> "forward"
StepAfter(p, completed) ==
    CASE p = "start" -> "call"
      [] p = "complete" -> "classify"
      [] p = "classify" -> "observe"
      [] p = "observe" -> "forward"

\* Instant::now() in the and_then closure: the time at which the invocation
\* runs it, not the time decorate() built the stage.
InstantAtDecorate(now) == 0
InstantNow(now) == now

\* The values the next reading of the monotonic clock can have.
Readings == 0..MaxClock

\* The `start` the then closure of layer k captured by move: the one its own
\* and_then closure took.
SharedStart(i, k) == start[1][k]
LateStart(i, k) == clock
CapturedStart(i, k) == start[i][k]

\* route::with in the default observer: the route of the thread it runs on.
ObserverRouteOfFirstThread(i) == ROUTE[1]
ObserverRoute(i) == ROUTE[ThreadOf(i)]

\* Info is passed to func by value: it is dropped when the call ends.
InfoKept(rec) == rec
InfoAfterCall(rec) == NoInfo

\* An observer that panics unwinds through the closure: nothing catches it.
OnObserverPanicCaught == "forward"
OnObserverPanic == "panicked"

\* A future can be dropped only while nobody polls it.
CanCancelBeforeForward(i) == pc[i] \in {"created", "pending", "forward"}
CanCancel(i) == pc[i] \in {"created", "pending"}

\* The default observer made by log(name): it reads the route of the
\* thread it runs on and formats one record.
LogRecord(k, rec, r, now, panicked) ==
    [target |-> decor[k].func.name, method |-> r.method, path |-> r.path,
     version |-> r.version, status |-> rec.status, start |-> rec.start,
     elapsed |-> now - rec.start, panicked |-> panicked]

\* ---------------------------------------------------------------- actions
\* The server calls filter() on the instrumented stage for a new request;
\* the requests are numbered in the order they arrive.
Invoke(i) ==
    /\ pc[i] = "idle"
    /\ \A j \in Invocations : j < i => pc[j] # "idle"
    /\ pc' = [pc EXCEPT ![i] = "created"]
    /\ route' = [route EXCEPT ![i] = RouteOf(i)]
    /\ UNCHANGED <<depth, decor, delay, deadline, clock, layer, start,
                   result, status, inres, outcome, hist, logs, info, running,
                   ROUTE>>

\* A worker thread polls the future of invocation i inside route::set.  The
\* workers are interchangeable: the first idle one takes the task.
PollBegin(t, i) ==
    /\ running[t] = NoInv
    /\ \A u \in Threads : u < t => running[u] # NoInv
    /\ ~IsRunning(i)
    /\ pc[i] \in {"created", "pending"}
    /\ running' = [running EXCEPT ![t] = i]
    /\ ROUTE' = [ROUTE EXCEPT ![t] = route[i]]
    /\ pc' = [pc EXCEPT ![i] = IF pc[i] = "created" THEN "any" ELSE "poll"]
    /\ layer' = [layer EXCEPT ![i] = IF pc[i] = "created" THEN depth ELSE 0]
    /\ UNCHANGED <<depth, decor, delay, deadline, clock, route, start,
                   result, status, inres, outcome, hist, logs, info>>

\* any() is ready at once and and_then calls its closure.
AnyReady(i) ==
    /\ pc[i] = "any"
    /\ IF AnyFilter.tag = "Ok"
       THEN /\ pc' = [pc EXCEPT ![i] = "start"]
            /\ UNCHANGED result
       ELSE /\ pc' = [pc EXCEPT ![i] = "forward"]
            /\ result' = [result EXCEPT ![i] = Err([reason |-> "never", cause |-> ""])]
    /\ UNCHANGED <<depth, decor, delay, deadline, clock, layer, route, start,
                   status, inres, outcome, hist, logs, info, running, ROUTE>>

\* let start = Instant::now(); let func = func.clone();
CaptureStart(i, now) ==
    /\ pc[i] = "start"
    /\ now >= clock
    /\ clock' = now
    /\ start' = [start EXCEPT ![i][layer[i]] = InstantNow(now)]
    /\ decor' = [decor EXCEPT ![layer[i]].func = FuncAfterClone(@)]
    /\ hist' = [hist EXCEPT ![i] = Append(@, Event("start", layer[i]))]
    /\ pc' = [pc EXCEPT ![i] = StepAfter("start", FALSE)]
    /\ UNCHANGED <<depth, delay, deadline, layer, route, result, status,
                   inres, outcome, logs, info, running, ROUTE>>

\* inner.filter().then(..): the inner stage of this layer starts running.
\* A raw stage with a fixed delay is ready that long after it was started.
CallInner(i, now) ==
    /\ pc[i] = "call"
    /\ IF layer[i] = 1 /\ delay # Untimed
       THEN /\ now >= clock
            /\ clock' = now
            /\ deadline' = [deadline EXCEPT ![i] = now + delay]
       ELSE /\ now = clock
            /\ UNCHANGED <<clock, deadline>>
    /\ hist' = [hist EXCEPT ![i] = Append(@, Event("inner", layer[i]))]
    /\ layer' = [layer EXCEPT ![i] = decor[layer[i]].inner]
    /\ pc' = [pc EXCEPT ![i] = IF decor[layer[i]].inner > 0 THEN "any" ELSE "poll"]
    /\ UNCHANGED <<depth, decor, delay, route, start, result, status, inres,
                   outcome, logs, info, running, ROUTE>>

\* The raw stage is not ready: the poll returns NotReady through the chain.
StagePending(i) ==
    /\ pc[i] = "poll"
    /\ pc' = [pc EXCEPT ![i] = "pending"]
    /\ Release(i)
    /\ UNCHANGED <<depth, decor, delay, deadline, clock, layer, route, start,
                   result, status, inres, outcome, hist, logs, info>>

\* The raw stage completes with res; layer 1's then closure is called.
StageComplete(i, res, now) ==
    /\ pc[i] = "poll"
    /\ now >= clock
    /\ IF deadline[i] = NoStart THEN now = clock ELSE now >= deadline[i]
    /\ clock' = now
    /\ result' = [result EXCEPT ![i] = res]
    /\ layer' = [layer EXCEPT ![i] = 1]
    /\ pc' = [pc EXCEPT ![i] = StepAfter("complete", TRUE)]
    /\ hist' = [hist EXCEPT ![i] = Append(@, Event("complete", 1))]
    /\ UNCHANGED <<depth, decor, delay, deadline, route, start, status,
                   inres, outcome, logs, info, running, ROUTE>>

\* let (result, status) = match result { .. };
ClassifyStep(i) ==
    /\ pc[i] = "classify"
    /\ LET c == Classify(result[i])
       IN  /\ inres' = [inres EXCEPT ![i][layer[i]] = result[i]]
           /\ result' = [result EXCEPT ![i] = c.result]
           /\ status' = [status EXCEPT ![i][layer[i]] = c.status]
    /\ hist' = [hist EXCEPT ![i] = Append(@, Event("classify", layer[i]))]
    /\ pc' = [pc EXCEPT ![i] = StepAfter("classify", TRUE)]
    /\ UNCHANGED <<depth, decor, delay, deadline, clock, layer, route, start,
                   outcome, logs, info, running, ROUTE>>

\* func(Info { start, status, _marker }): the record is built and the
\* observer is entered.
ObserverCall(i) ==
    /\ pc[i] = "observe"
    /\ info' = [info EXCEPT ![i] =
                   Info(CapturedStart(i, layer[i]), status[i][layer[i]])]
    /\ hist' = [hist EXCEPT ![i] = Append(@, Event("observe", layer[i]))]
    /\ pc' = [pc EXCEPT ![i] = "in_observer"]
    /\ UNCHANGED <<depth, decor, delay, deadline, clock, layer, route, start,
                   result, status, inres, outcome, logs, running, ROUTE>>

\* The observer reads the clock, emits its record and returns.
ObserverReturns(i, now) ==
    /\ pc[i] = "in_observer"
    /\ now >= clock
    /\ clock' = now
    /\ logs' = [logs EXCEPT ![i] =
                   Append(@, LogRecord(layer[i], info[i], ObserverRoute(i), now, FALSE))]
    /\ info' = [info EXCEPT ![i] = InfoAfterCall(@)]
    /\ pc' = [pc EXCEPT ![i] = StepAfter("observe", Completed(i, layer[i]))]
    /\ UNCHANGED <<depth, decor, delay, deadline, layer, route, start,
                   result, status, inres, outcome, hist, running, ROUTE>>

\* The observer panics: the poll unwinds to the caller.
ObserverPanics(i, now) ==
    /\ pc[i] = "in_observer"
    /\ now >= clock
    /\ clock' = now
    /\ logs' = [logs EXCEPT ![i] =
                   Append(@, LogRecord(layer[i], info[i], ObserverRoute(i), now, TRUE))]
    /\ info' = [info EXCEPT ![i] = InfoAfterCall(@)]
    /\ pc' = [pc EXCEPT ![i] = OnObserverPanic]
    /\ IF OnObserverPanic = "panicked"
       THEN Release(i)
       ELSE UNCHANGED <<running, ROUTE>>
    /\ UNCHANGED <<depth, decor, delay, deadline, layer, route, start,
                   result, status, inres, outcome, hist>>

\* The closure returns `result`: the layer's future resolves to it.
\* Below the outermost layer the next layer's then closure receives it.
ForwardStep(i) ==
    /\ pc[i] = "forward"
    /\ result' = [result EXCEPT ![i] = CombineFrom(@)]
    /\ IF layer[i] < depth
       THEN /\ hist' = [hist EXCEPT ![i] =
                          @ \o <<Event("forward", layer[i]),
                                 Event("complete", layer[i] + 1)>>]
            /\ layer' = [layer EXCEPT ![i] = @ + 1]
            /\ pc' = [pc EXCEPT ![i] = StepAfter("complete", TRUE)]
            /\ UNCHANGED <<outcome, running, ROUTE>>
       ELSE /\ hist' = [hist EXCEPT ![i] = Append(@, Event("forward", layer[i]))]
            /\ outcome' = [outcome EXCEPT ![i] = CombineFrom(result[i])]
            /\ pc' = [pc EXCEPT ![i] = "done"]
            /\ Release(i)
            /\ UNCHANGED layer
    /\ UNCHANGED <<depth, decor, delay, deadline, clock, route, start,
                   status, inres, logs, info>>

\* The pipeline drops the future of invocation i.
Cancel(i) ==
    /\ CanCancel(i)
    /\ pc' = [pc EXCEPT ![i] = "cancelled"]
    /\ UNCHANGED <<depth, decor, delay, deadline, clock, layer, route, start,
                   result, status, inres, outcome, hist, logs, info, running,
                   ROUTE>>

\* The steps of the invocations in S, whose raw stage completes with a
\* result in R and whose observers return.
NextFor(S, R) ==
    \/ \E i \in S : Invoke(i)
    \/ \E t \in Threads, i \in S : PollBegin(t, i)
    \/ \E i \in S : AnyReady(i)
    \/ \E i \in S, now \in Readings : CaptureStart(i, now)
    \/ \E i \in S, now \in Readings : CallInner(i, now)
    \/ \E i \in S : StagePending(i)
    \/ \E i \in S, res \in R, now \in Readings : StageComplete(i, res, now)
    \/ \E i \in S : ClassifyStep(i)
    \/ \E i \in S : ObserverCall(i)
    \/ \E i \in S, now \in Readings : ObserverReturns(i, now)
    \/ \E i \in S : ForwardStep(i)
    \/ \E i \in S : Cancel(i)

\* One request through a chain of NumLayers decorators around a raw stage
\* that is untimed or takes a fixed delay; the observers may panic.
InitChain == InitWith(NumLayers, 0..MaxClock)
NextChain ==
    \/ NextFor({1}, StageResults)
    \/ \E now \in Readings : ObserverPanics(1, now)
SpecChain == InitChain /\ [][NextChain]_vars

\* NumInvocations concurrent requests through one decorator whose observer
\* returns.
InitConc == InitWith(1, {Untimed})
NextConc == NextFor(Invocations, FewResults)
SpecConc == InitConc /\ [][NextConc]_vars

\* ---------------------------------------------------------------- claims
Decorators == 1..depth

\* The observer calls layer k made in invocation i.
CallsOf(i, k) == { n \in DOMAIN logs[i] : logs[i][n].target = TargetName(k) }

Happened(i, ev, k) == \E n \in DOMAIN hist[i] : hist[i][n] = Event(ev, k)

\* Every occurrence of event b of layer k follows an occurrence of event a.
Precedes(i, a, b, k) ==
    \A n \in DOMAIN hist[i] :
        hist[i][n] = Event(b, k) =>
            \E m \in 1..(n - 1) : hist[i][m] = Event(a, k)

AtMostOnce(i, ev, k) ==
    Cardinality({ n \in DOMAIN hist[i] : hist[i][n] = Event(ev, k) }) <= 1

\* The poll in which the inner stage of a layer completed has ended.
Ended(i) == pc[i] \in {"done", "panicked"}

\* C1: whenever the inner stage of a decorator has completed, its observer
\* is called exactly once, never twice, on the success and on the failure
\* path, and the call comes before the layer forwards the outcome.
C1_ObserverExactlyOnce ==
    \A i \in Invocations, k \in Decorators :
        /\ Cardinality(CallsOf(i, k)) <= 1
        /\ (Completed(i, k) /\ Ended(i)) => Cardinality(CallsOf(i, k)) = 1
        /\ Happened(i, "forward", k) =>
              /\ Cardinality(CallsOf(i, k)) = 1
              /\ Precedes(i, "observe", "forward", k)
        /\ outcome[i] # NoResult => Cardinality(CallsOf(i, k)) = 1

C1_Witness ==
    \E i \in Invocations :
        /\ pc[i] = "done"
        /\ outcome[i].tag = "Err"
        /\ \A k \in Decorators : Cardinality(CallsOf(i, k)) = 1

\* C2: on the success path the status the observer receives is the status
\* of the response obtained by rendering the inner stage's success value
\* directly.
C2_SuccessStatus ==
    \A i \in Invocations, k \in Decorators :
        inres[i][k].tag = "Ok" =>
            \A n \in CallsOf(i, k) :
                logs[i][n].status = IntoResponse(inres[i][k].val).status

C2_Witness ==
    \E i \in Invocations :
        /\ inres[i][1] = Ok([kind |-> "with_status", code |-> 201, body |-> "made"])
        /\ \E n \in CallsOf(i, 1) : logs[i][n].status = 201

\* C3: on the failure path the status the observer receives is the status
\* obtained by asking the inner stage's failure value directly.
C3_FailureStatus ==
    \A i \in Invocations, k \in Decorators :
        inres[i][k].tag = "Err" =>
            \A n \in CallsOf(i, k) :
                logs[i][n].status = RejectStatus(inres[i][k].val)

C3_Witness ==
    \E i \in Invocations :
        /\ inres[i][1] = Err([reason |-> "bad_request", cause |-> "bad header"])
        /\ \E n \in CallsOf(i, 1) : logs[i][n].status = 400

\* C4: a failure of the inner stage is forwarded with its content unchanged:
\* what a layer passes on, and what the instrumented stage returns, is the
\* failure value the raw stage produced.
C4_FailureUnchanged ==
    \A i \in Invocations :
        /\ \A k \in Decorators :
              inres[i][k].tag = "Err" =>
                  /\ inres[i][k] = inres[i][1]
                  /\ (layer[i] = k /\ pc[i] \in {"observe", "forward"})
                        => result[i] = inres[i][k]
        /\ (pc[i] = "done" /\ inres[i][1].tag = "Err") => outcome[i] = inres[i][1]

C4_Witness ==
    \E i \in Invocations :
        /\ pc[i] = "done"
        /\ outcome[i] = Err([reason |-> "bad_request", cause |-> "bad header"])
        /\ inres[i][depth] = outcome[i]

\* C5: within one invocation the events of a decorator happen in the order
\* start capture, inner stage started, inner stage completed, classification,
\* observer call, forwarding; each at most once and none before its
\* predecessor.
C5_StrictOrder ==
    \A i \in Invocations, k \in Decorators :
        /\ Precedes(i, "start", "inner", k)
        /\ Precedes(i, "inner", "complete", k)
        /\ Precedes(i, "complete", "classify", k)
        /\ Precedes(i, "classify", "observe", k)
        /\ Precedes(i, "observe", "forward", k)
        /\ \A ev \in {"start", "inner", "complete", "classify", "observe", "forward"} :
              AtMostOnce(i, ev, k)

C5_Witness ==
    \E i \in Invocations :
        /\ Happened(i, "forward", depth)
        /\ Len(hist[i]) = 6 * depth

\* C6: an invocation cancelled before the inner stage completed has no
\* observer call and no classification, and never gets one.
C6_CancelledNoObserver ==
    \A i \in Invocations :
        pc[i] = "cancelled" =>
            /\ logs[i] = <<>>
            /\ \A k \in Decorators :
                  /\ ~Completed(i, k)
                  /\ ~Happened(i, "classify", k)
                  /\ ~Happened(i, "observe", k)
                  /\ status[i][k] = NoStatus

C6_Witness ==
    \E i \in Invocations :
        /\ pc[i] = "cancelled"
        /\ Happened(i, "inner", 1)
        /\ logs[i] = <<>>

\* C7: with several invocations in flight, each invocation makes at most one
\* observer call per decorator, exactly one once it has completed, and the
\* call carries the start, the status and the route (path, method, version)
\* of that same invocation.
C7_OwnData ==
    \A i \in Invocations, k \in Decorators :
        /\ Cardinality(CallsOf(i, k)) <= 1
        /\ pc[i] = "done" => Cardinality(CallsOf(i, k)) = 1
        /\ \A n \in CallsOf(i, k) :
              /\ logs[i][n].path = RouteOf(i).path
              /\ logs[i][n].method = RouteOf(i).method
              /\ logs[i][n].version = RouteOf(i).version
              /\ logs[i][n].start = start[i][k]
              /\ logs[i][n].status = Classify(inres[i][k]).status

C7_Witness ==
    \E i, j \in Invocations :
        /\ i # j
        /\ pc[i] = "forward" /\ pc[j] = "forward"
        /\ logs[i] # <<>> /\ logs[j] # <<>>
        /\ logs[i][1].start # logs[j][1].start
        /\ logs[i][1].status # logs[j][1].status
        /\ logs[i][1].path # logs[j][1].path

\* C8: in a chain of decorators every completed invocation calls each
\* decorator's observer exactly once, an outer observer after the inner
\* one, and all of them receive the same status, on both paths.
C8_ChainedObservers ==
    \A i \in Invocations :
        pc[i] = "done" =>
            /\ Len(logs[i]) = depth
            /\ \A n \in DOMAIN logs[i] :
                  /\ logs[i][n].target = TargetName(n)
                  /\ logs[i][n].status = logs[i][1].status
                  /\ ~logs[i][n].panicked

C8_Witness ==
    \E i \in Invocations :
        /\ pc[i] = "done"
        /\ depth >= 2
        /\ logs[i][1].target = TargetName(1)
        /\ logs[i][depth].target = TargetName(depth)
        /\ logs[i][depth].status = 201

\* C9: the decorator adds no failure of its own: an invocation has an
\* outcome exactly when it is done, the outcome is a success iff the raw
\* stage succeeded and a failure iff it failed, at every layer, and no
\* failure comes from the empty error type of any().
C9_NoNewFailure ==
    \A i \in Invocations :
        /\ (pc[i] = "done") <=> (outcome[i] # NoResult)
        /\ pc[i] = "done" =>
              /\ outcome[i].tag \in {"Ok", "Err"}
              /\ outcome[i].tag = inres[i][1].tag
        /\ \A k \in Decorators :
              (layer[i] = k /\ pc[i] \in {"observe", "forward"})
                  => result[i].tag = inres[i][1].tag
        /\ result[i].tag = "Err" => result[i].val.reason # "never"

C9_Witness ==
    \E i \in Invocations :
        /\ pc[i] = "done"
        /\ outcome[i].tag = "Ok"
        /\ inres[i][1].tag = "Ok"

\* C10: an observer that panics ends the invocation with the panic: no
\* outcome is forwarded by that layer or any outer one, and no outer
\* observer is called.
C10_PanicPropagates ==
    \A i \in Invocations :
        \A n \in DOMAIN logs[i] :
            logs[i][n].panicked =>
                /\ pc[i] = "panicked"
                /\ outcome[i] = NoResult
                /\ n = Len(logs[i])
                /\ \A k \in Decorators :
                      logs[i][n].target = TargetName(k) =>
                          \A j \in k..depth : ~Happened(i, "forward", j)
                /\ ~IsRunning(i)

C10_Witness ==
    \E i \in Invocations :
        /\ pc[i] = "panicked"
        /\ logs[i] # <<>>
        /\ logs[i][Len(logs[i])].panicked
        /\ inres[i][1].tag = "Ok"

\* C11: on the success path the forwarded value is Logged around the
\* rendered response of the inner success value, and Logged::into_response
\* of it is exactly the response that rendering the raw stage's success
\* value directly gives, status and body.
C11_WrapUnwrap ==
    \A i \in Invocations :
        /\ \A k \in Decorators :
              (inres[i][k].tag = "Ok" /\ layer[i] = k
                    /\ pc[i] \in {"observe", "forward"}) =>
                  /\ result[i] = Ok(Logged(IntoResponse(inres[i][k].val)))
                  /\ LoggedIntoResponse(result[i].val) = IntoResponse(inres[i][1].val)
        /\ (pc[i] = "done" /\ inres[i][1].tag = "Ok") =>
              /\ outcome[i].tag = "Ok"
              /\ outcome[i].val.kind = "logged"
              /\ LoggedIntoResponse(outcome[i].val) = IntoResponse(inres[i][1].val)

C11_Witness ==
    \E i \in Invocations :
        /\ pc[i] = "done"
        /\ inres[i][1] = Ok([kind |-> "text", body |-> "hello"])
        /\ outcome[i] = Ok(Logged([status |-> 200, body |-> "hello"]))

\* C12: start is captured before the inner stage of the layer is started,
\* the elapsed time the observer sees is never negative, and with a raw
\* stage that takes the fixed delay D every observer sees at least D.
C12_Elapsed ==
    \A i \in Invocations, k \in Decorators :
        /\ Precedes(i, "start", "inner", k)
        /\ Happened(i, "inner", k) => start[i][k] # NoStart
        /\ deadline[i] # NoStart => start[i][k] + delay <= deadline[i]
        /\ \A n \in CallsOf(i, k) :
              /\ logs[i][n].elapsed >= 0
              /\ logs[i][n].elapsed >= delay

C12_Witness ==
    \E i \in Invocations :
        /\ delay >= 1
        /\ pc[i] = "done"
        /\ logs[i][1].status = 200
        /\ logs[i][1].elapsed >= delay
        /\ Len(logs[i]) = depth

\* C13: a stage decorated with the default observer emits exactly one
\* record per decorator for a completed invocation; the record has the
\* decorator's name as target, the method, full path and version of the
\* request of that same invocation, whose route is installed on the thread
\* while the observer runs, the status and the elapsed time.
C13_DefaultObserver ==
    \A i \in Invocations :
        /\ pc[i] = "in_observer" =>
              /\ IsRunning(i)
              /\ ROUTE[ThreadOf(i)] = RouteOf(i)
        /\ pc[i] = "done" => Len(logs[i]) = depth
        /\ \A n \in DOMAIN logs[i] :
              /\ n <= depth
              /\ logs[i][n].target = TargetName(n)
              /\ logs[i][n].method = RouteOf(i).method
              /\ logs[i][n].path = RouteOf(i).path
              /\ logs[i][n].version = RouteOf(i).version
              /\ logs[i][n].status = status[i][n]
              /\ logs[i][n].status # NoStatus
              /\ logs[i][n].elapsed >= 0
              /\ logs[i][n].start + logs[i][n].elapsed <= clock

C13_Witness ==
    \E i, j \in Invocations :
        /\ pc[i] = "done" /\ pc[j] = "done"
        /\ Len(logs[i]) = 1 /\ Len(logs[j]) = 1
        /\ logs[i][1].method = "GET" /\ logs[j][1].method = "POST"
        /\ logs[i][1].path = <<"req", i>> /\ logs[j][1].path = <<"req", j>>
        /\ logs[i][1].elapsed = 1

\* C14: the decorator adds no suspension point: from the completion of the
\* raw stage on, the invocation stays inside the same poll until it has
\* forwarded its outcome (or unwound from a panic); it is never pending,
\* and never cancellable or cancelled, in between.
C14_NoSuspension ==
    \A i \in Invocations :
        Completed(i, 1) =>
            /\ pc[i] \notin {"idle", "created", "pending", "cancelled"}
            /\ pc[i] \notin {"done", "panicked"} =>
                  /\ IsRunning(i)
                  /\ ~CanCancel(i)
                  /\ pc[i] \in {"classify", "observe", "in_observer", "forward"}

C14_Witness ==
    \E i \in Invocations :
        /\ pc[i] = "forward"
        /\ layer[i] = depth
        /\ Len(logs[i]) = depth
        /\ IsRunning(i)
        /\ outcome[i] = NoResult

LiveInfos == { i \in Invocations : info[i] # NoInfo }
InObserver == { i \in Invocations : pc[i] = "in_observer" }

\* C15: an Info record exists only while its invocation is inside the
\* observer call: it is built after the inner stage completed, from the
\* start and status of that invocation, at most once per decorator, and is
\* gone when the call has ended; the live records never outnumber the
\* invocations inside their observer.
C15_InfoLifetime ==
    /\ Cardinality(LiveInfos) <= Cardinality(InObserver)
    /\ \A i \in Invocations :
          /\ info[i] # NoInfo =>
                /\ pc[i] = "in_observer"
                /\ Completed(i, layer[i])
                /\ info[i] = Info(start[i][layer[i]], status[i][layer[i]])
          /\ pc[i] \in {"forward", "done", "cancelled", "panicked", "pending"}
                => info[i] = NoInfo
          /\ \A k \in Decorators : AtMostOnce(i, "observe", k)

C15_Witness ==
    \E i, j \in Invocations :
        /\ i # j
        /\ LiveInfos = {i, j}
        /\ info[i].status = 201
        /\ info[j].status = 404

\* C16: the decorator holds no mutable shared state: whatever invocations
\* have run, completed or cancelled, every decorator still holds the func
\* and the inner stage it was built with, and two completed invocations
\* whose raw stage gave the same result have the same outcome and the same
\* observer records (target and status).
C16_NoSharedMutation ==
    /\ decor = [k \in Layers |-> Decorated(k)]
    /\ \A i, j \in Invocations :
          (pc[i] = "done" /\ pc[j] = "done" /\ inres[i][1] = inres[j][1]) =>
              /\ outcome[i] = outcome[j]
              /\ Len(logs[i]) = Len(logs[j])
              /\ \A n \in DOMAIN logs[i] :
                    /\ logs[i][n].target = logs[j][n].target
                    /\ logs[i][n].status = logs[j][n].status

C16_Witness ==
    \E i, j \in Invocations :
        /\ i < j
        /\ pc[i] = "done" /\ pc[j] = "done"
        /\ inres[i][1] = inres[j][1]
        /\ outcome[i] = outcome[j]
        /\ logs[j][1].target = TargetName(1)

\* C17: start is read from the clock inside each invocation, not when the
\* stage is built: an invocation that has not been polled has no start, the
\* step that sets start[i][k] is invocation i's own and_then closure of
\* layer k and stores the reading made in that very step, which is no
\* earlier than any reading made before, and the record the observer emits
\* carries that start.
C17_FreshStart ==
    [][\A i \in Invocations, k \in Layers :
          /\ pc[i] \in {"idle", "created"} => start[i][k] = NoStart
          /\ clock' >= clock
          /\ start'[i][k] # start[i][k] =>
                /\ pc[i] = "start" /\ layer[i] = k
                /\ start[i][k] = NoStart
                /\ start'[i][k] = clock'
                /\ start'[i][k] >= clock
          /\ (logs'[i] # logs[i] /\ layer[i] = k) =>
                logs'[i][Len(logs'[i])].start = start[i][k]]_vars

C17_Witness ==
    \E i, j \in Invocations :
        /\ pc[i] = "done" /\ pc[j] = "done"
        /\ logs[i][1].start = 0
        /\ logs[j][1].start = 1
        /\ start[j][1] = 1

\* C18: on the success path the status the observer is given equals the
\* status of the response inside the wrapper the layer forwards: while a
\* layer holds a success between its match and its return, the status it
\* computed, the Info it hands over and the records it has emitted all carry
\* the status of the wrapped response, and a completed success carries in
\* its outcome the status every observer logged.
C18_LoggedStatusAgrees ==
    \A i \in Invocations :
        /\ \A k \in Decorators :
              (layer[i] = k /\ result[i].tag = "Ok"
                    /\ pc[i] \in {"observe", "in_observer", "forward"}) =>
                  /\ result[i].val.kind = "logged"
                  /\ status[i][k] = LoggedIntoResponse(result[i].val).status
                  /\ pc[i] = "in_observer" =>
                        info[i].status = LoggedIntoResponse(result[i].val).status
                  /\ \A n \in CallsOf(i, k) :
                        logs[i][n].status = LoggedIntoResponse(result[i].val).status
        /\ (pc[i] = "done" /\ outcome[i].tag = "Ok") =>
              \A n \in DOMAIN logs[i] :
                  logs[i][n].status = LoggedIntoResponse(outcome[i].val).status

C18_Witness ==
    \E i \in Invocations :
        /\ pc[i] = "done"
        /\ outcome[i] = Ok(Logged([status |-> 201, body |-> "made"]))
        /\ Len(logs[i]) = depth
        /\ \A n \in DOMAIN logs[i] : logs[i][n].status = 201

\* The number of occurrences of event ev of layer k in invocation i.
Count(i, ev, k) ==
    Cardinality({ n \in DOMAIN hist[i] : hist[i][n] = Event(ev, k) })

\* C19: an invocation starts the inner stage of each decorator exactly once
\* and runs the match that renders the success value exactly once: neither
\* happens twice, the inner stage completes only after it was started, the
\* match runs only on its completed result, and an invocation that reached
\* the observer or its end has done each exactly once at every layer.
C19_InnerExactlyOnce ==
    \A i \in Invocations, k \in Decorators :
        /\ Count(i, "inner", k) <= 1
        /\ Count(i, "complete", k) <= Count(i, "inner", k)
        /\ Count(i, "classify", k) <= Count(i, "complete", k)
        /\ Precedes(i, "inner", "complete", k)
        /\ Precedes(i, "complete", "classify", k)
        /\ (Happened(i, "observe", k) \/ Happened(i, "forward", k)
                \/ pc[i] = "done") =>
              /\ Count(i, "inner", k) = 1
              /\ Count(i, "classify", k) = 1
        /\ (pc[i] = "done" /\ inres[i][k].tag = "Ok") =>
              outcome[i] = Ok(Logged(IntoResponse(inres[i][1].val)))

C19_Witness ==
    \E i \in Invocations :
        /\ pc[i] = "done"
        /\ depth >= 2
        /\ inres[i][1].tag = "Ok"
        /\ \A k \in Decorators :
              /\ Count(i, "inner", k) = 1
              /\ Count(i, "classify", k) = 1

====
